---- MODULE Spec2Model ----
(***************************************************************************)
(* Split-ring compound planetary gearbox tools (srcp-optimization).        *)
(*                                                                         *)
(* Three programs are modelled, each as one action per call:               *)
(*   - the tooth-count search      (optimize_gear_ratio.py)                *)
(*   - the YAML parameter solver   (solve_yaml_params.py)                  *)
(*   - the carrier-angle solver    (analysis-tools/gear_ratio_calculator)  *)
(*                                                                         *)
(* Python floats are modelled as exact rationals <<n, d>> in lowest terms  *)
(* with d > 0.  float('inf') is the pair <<1, 0>>.  Rounding of IEEE       *)
(* doubles is therefore not part of the model; the input sets below are    *)
(* chosen so that no comparison of the code sits exactly on a boundary     *)
(* where double rounding decides it.                                       *)
(***************************************************************************)
EXTENDS Integers, Sequences, FiniteSets, TLC

VARIABLES tool, args, result, out_file, printed

vars == <<tool, args, result, out_file, printed>>

----------------------------------------------------------------------------
(* Bounds of the model *)

\* largest max_teeth argument handed to the search
MaxTeethBound == 36

----------------------------------------------------------------------------
(* Rational arithmetic standing for Python float arithmetic *)

Abs(x) == IF x < 0 THEN -x ELSE x

RECURSIVE GCD(_, _)
GCD(a, b) == IF b = 0 THEN a ELSE GCD(b, a % b)

Norm(n, d) ==
    LET g == GCD(Abs(n), Abs(d))
        s == IF d < 0 THEN -1 ELSE 1
    IN  <<(s * n) \div g, (s * d) \div g>>

RInt(i) == <<i, 1>>
RAdd(a, b) == Norm(a[1] * b[2] + b[1] * a[2], a[2] * b[2])
RSub(a, b) == Norm(a[1] * b[2] - b[1] * a[2], a[2] * b[2])
RMul(a, b) == Norm(a[1] * b[1], a[2] * b[2])
RDiv(a, b) == Norm(a[1] * b[2], a[2] * b[1])
RAbs(a) == <<Abs(a[1]), a[2]>>
RLt(a, b) == a[1] * b[2] < b[1] * a[2]
RLe(a, b) == a[1] * b[2] <= b[1] * a[2]
RIsZero(a) == a[1] = 0

\* float('inf'): every finite rational is RLt it, it is RLt nothing
Inf == <<1, 0>>

CeilDiv(a, b) == (a + b - 1) \div b

\* abs(G) < 1e-10, i.e. |n| * 10^10 < d, computed without leaving 32 bits:
\* for integers, n * K * K < d  iff  n < ceil(ceil(d / K) / K)
BelowEpsMutant(G) == Abs(G[1]) * 10 < G[2]
BelowEps(G) == Abs(G[1]) < CeilDiv(CeilDiv(G[2], 100000), 100000)

----------------------------------------------------------------------------
(* optimize_gear_ratio.py: the tooth-count search *)

\* Python's None, and an exception leaving the function
None == [tag |-> "None"]
ZeroDivisionError == [tag |-> "ZeroDivisionError"]

Min(a, b) == IF a < b THEN a ELSE b

\* range(8, min(r1_teeth//2, 30)) as lower and exclusive upper end
P1Low == 8
P1High(r1_teeth) == Min(r1_teeth \div 2, 30)

\* range(20, max_teeth)
RingLow == 20

\* if(sun_teeth < 8): continue
SunTooSmallMutant(sun_teeth) == sun_teeth <= 0
SunTooSmall(sun_teeth) == sun_teeth < 8

\* if (r1_teeth + sun_teeth) % 3 != 0: continue
SpacingRejected(r1_teeth, sun_teeth) == (r1_teeth + sun_teeth) % 3 # 0

\* if p2_teeth <= 0: continue
P2Rejected(p2_teeth) == p2_teeth <= 0

\* I1 = r1/sun ; I2 = (r1*p2)/(r2*p1) ; G = (1 - I2)/(1 + I1)
GearG(r1_teeth, sun_teeth, p1_teeth, p2_teeth, r2_teeth) ==
    LET I1 == RDiv(RInt(r1_teeth), RInt(sun_teeth))
        I2 == RDiv(RInt(r1_teeth * p2_teeth), RInt(r2_teeth * p1_teeth))
    IN  RDiv(RSub(RInt(1), I2), RAdd(RInt(1), I1))

\* actual_ratio = 1 / G
ActualRatio(G) == RDiv(RInt(1), G)

\* error = abs(actual_ratio - target_ratio)
ErrorOf(actual_ratio, target_ratio) == RAbs(RSub(actual_ratio, target_ratio))

\* if error < best_error:
\* (the comparison reversed once a best exists)
ImprovesMutant(error, best_error) == RLt(best_error, error) \/ best_error = Inf
Improves(error, best_error) == RLt(error, best_error)

\* The errors compared at line 49 are doubles.  Two candidates with the same
\* I1 and the same I2 have the same computed error; two candidates whose errors
\* are equal as real numbers but whose I1 or I2 differ have computed errors
\* that may differ in their last bits, so that the later one may compare
\* below the earlier one.  A run resolves such ties one way or the other.
Roundings == {"ties stay equal", "later tie below"}

\* the candidate and the configuration kept as best have the same I1 and I2
SameOperands(cfg, r1_teeth, sun_teeth, p1_teeth, p2_teeth, r2_teeth) ==
    /\ r1_teeth * cfg.sun_teeth = cfg.r1_teeth * sun_teeth
    /\ (r1_teeth * p2_teeth) * (cfg.r2_teeth * cfg.p1_teeth)
           = (cfg.r1_teeth * cfg.p2_teeth) * (r2_teeth * p1_teeth)

\* error < best_error decided by the last bits of errors equal as real numbers
RoundsBelow(error, best, r1_teeth, sun_teeth, p1_teeth, p2_teeth, r2_teeth, rounding) ==
    /\ rounding = "later tie below"
    /\ best.best_config # None
    /\ error = best.best_error
    /\ ~SameOperands(best.best_config, r1_teeth, sun_teeth, p1_teeth, p2_teeth, r2_teeth)

\* the dict built at lines 51-60; (error/target_ratio)*100 raises for target 0
NearestConfig(sun_teeth, p1_teeth, r1_teeth, p2_teeth, r2_teeth, actual_ratio, error, target_ratio) ==
    IF RIsZero(target_ratio) THEN ZeroDivisionError
    ELSE [tag |-> "config",
          sun_teeth |-> sun_teeth, p1_teeth |-> p1_teeth, r1_teeth |-> r1_teeth,
          p2_teeth |-> p2_teeth, r2_teeth |-> r2_teeth,
          actual_ratio |-> actual_ratio, error |-> error,
          error_percent |-> RMul(RDiv(error, target_ratio), RInt(100))]

\* loop state of find_nearest_gear_ratio: best_error, best_config
NearestStart == [best_error |-> Inf, best_config |-> None]

\* body of the r2_teeth loop, lines 32-60
NearestBody(r1_teeth, p1_teeth, sun_teeth, r2_teeth, target_ratio, rounding, best) ==
    LET p2_teeth == r2_teeth - sun_teeth - p1_teeth
    IN  IF P2Rejected(p2_teeth) THEN best
        ELSE LET G == GearG(r1_teeth, sun_teeth, p1_teeth, p2_teeth, r2_teeth)
             IN  IF BelowEps(G) THEN best
                 ELSE LET actual_ratio == ActualRatio(G)
                          error == ErrorOf(actual_ratio, target_ratio)
                      IN  IF \/ Improves(error, best.best_error)
                             \/ RoundsBelow(error, best, r1_teeth, sun_teeth, p1_teeth,
                                            p2_teeth, r2_teeth, rounding)
                          THEN [best_error |-> error,
                                best_config |->
                                    NearestConfig(sun_teeth, p1_teeth, r1_teeth,
                                                  p2_teeth, r2_teeth, actual_ratio,
                                                  error, target_ratio)]
                          ELSE best

\* for r2_teeth in range(20, max_teeth)
RECURSIVE NearestR2Loop(_, _, _, _, _, _, _, _)
NearestR2Loop(r1_teeth, p1_teeth, sun_teeth, r2_teeth, max_teeth, target_ratio, rounding, best) ==
    IF r2_teeth >= max_teeth \/ best.best_config = ZeroDivisionError THEN best
    ELSE NearestR2Loop(r1_teeth, p1_teeth, sun_teeth, r2_teeth + 1, max_teeth,
                       target_ratio, rounding,
                       NearestBody(r1_teeth, p1_teeth, sun_teeth, r2_teeth,
                                   target_ratio, rounding, best))

\* for p1_teeth in range(8, min(r1_teeth//2, 30)), lines 18-31
RECURSIVE NearestP1Loop(_, _, _, _, _, _)
NearestP1Loop(r1_teeth, p1_teeth, max_teeth, target_ratio, rounding, best) ==
    IF p1_teeth >= P1High(r1_teeth) \/ best.best_config = ZeroDivisionError THEN best
    ELSE LET sun_teeth == r1_teeth - 2 * p1_teeth
             skip == \/ SunTooSmall(sun_teeth)
                     \/ SpacingRejected(r1_teeth, sun_teeth)
                     \/ sun_teeth <= 0
         IN  NearestP1Loop(r1_teeth, p1_teeth + 1, max_teeth, target_ratio, rounding,
                 IF skip THEN best
                 ELSE NearestR2Loop(r1_teeth, p1_teeth, sun_teeth, RingLow,
                                    max_teeth, target_ratio, rounding, best))

\* for r1_teeth in range(20, max_teeth)
RECURSIVE NearestR1Loop(_, _, _, _, _)
NearestR1Loop(r1_teeth, max_teeth, target_ratio, rounding, best) ==
    IF r1_teeth >= max_teeth \/ best.best_config = ZeroDivisionError THEN best
    ELSE NearestR1Loop(r1_teeth + 1, max_teeth, target_ratio, rounding,
                       NearestP1Loop(r1_teeth, P1Low, max_teeth, target_ratio,
                                     rounding, best))

find_nearest_gear_ratio(target_ratio, max_teeth, rounding) ==
    NearestR1Loop(RingLow, max_teeth, target_ratio, rounding, NearestStart).best_config

\* error_percent = abs(actual_ratio - target_ratio) / target_ratio * 100
\* (a result of None stands for the ZeroDivisionError of target_ratio = 0)
ErrorPercent(actual_ratio, target_ratio) ==
    IF RIsZero(target_ratio) THEN None
    ELSE RMul(RDiv(ErrorOf(actual_ratio, target_ratio), target_ratio), RInt(100))

\* if error_percent <= max_error_percent:
WithinToleranceMutant(error_percent, max_error_percent) == RLe(max_error_percent, error_percent)
WithinTolerance(error_percent, max_error_percent) == RLe(error_percent, max_error_percent)

\* body of the r2_teeth loop, lines 87-113: None, or the value returned
MinRing1Body(r1_teeth, p1_teeth, sun_teeth, r2_teeth, target_ratio, max_error_percent) ==
    LET p2_teeth == r2_teeth - sun_teeth - p1_teeth
    IN  IF P2Rejected(p2_teeth) THEN None
        ELSE LET G == GearG(r1_teeth, sun_teeth, p1_teeth, p2_teeth, r2_teeth)
             IN  IF BelowEps(G) THEN None
                 ELSE LET actual_ratio == ActualRatio(G)
                          error_percent == ErrorPercent(actual_ratio, target_ratio)
                      IN  IF error_percent = None THEN ZeroDivisionError
                          ELSE IF WithinTolerance(error_percent, max_error_percent)
                          THEN [tag |-> "config",
                                sun_teeth |-> sun_teeth, p1_teeth |-> p1_teeth,
                                r1_teeth |-> r1_teeth, p2_teeth |-> p2_teeth,
                                r2_teeth |-> r2_teeth, actual_ratio |-> actual_ratio,
                                error_percent |-> error_percent]
                          ELSE None

\* for r2_teeth in range(20, max_teeth)
RECURSIVE MinRing1R2Loop(_, _, _, _, _, _, _)
MinRing1R2Loop(r1_teeth, p1_teeth, sun_teeth, r2_teeth, max_teeth, target_ratio, max_error_percent) ==
    IF r2_teeth >= max_teeth THEN None
    ELSE LET ret == MinRing1Body(r1_teeth, p1_teeth, sun_teeth, r2_teeth,
                                 target_ratio, max_error_percent)
         IN  IF ret # None THEN ret
             ELSE MinRing1R2Loop(r1_teeth, p1_teeth, sun_teeth, r2_teeth + 1,
                                 max_teeth, target_ratio, max_error_percent)

\* for p1_teeth in range(8, min(r1_teeth//2, 30)), lines 73-86
RECURSIVE MinRing1P1Loop(_, _, _, _, _)
MinRing1P1Loop(r1_teeth, p1_teeth, max_teeth, target_ratio, max_error_percent) ==
    IF p1_teeth >= P1High(r1_teeth) THEN None
    ELSE LET sun_teeth == r1_teeth - 2 * p1_teeth
             skip == \/ SunTooSmall(sun_teeth)
                     \/ SpacingRejected(r1_teeth, sun_teeth)
                     \/ sun_teeth <= 0
             ret == IF skip THEN None
                    ELSE MinRing1R2Loop(r1_teeth, p1_teeth, sun_teeth, RingLow,
                                        max_teeth, target_ratio, max_error_percent)
         IN  IF ret # None THEN ret
             ELSE MinRing1P1Loop(r1_teeth, p1_teeth + 1, max_teeth, target_ratio,
                                 max_error_percent)

\* for r1_teeth in range(20, max_teeth); return None after the loops
RECURSIVE MinRing1R1Loop(_, _, _, _)
MinRing1R1Loop(r1_teeth, max_teeth, target_ratio, max_error_percent) ==
    IF r1_teeth >= max_teeth THEN None
    ELSE LET ret == MinRing1P1Loop(r1_teeth, P1Low, max_teeth, target_ratio,
                                   max_error_percent)
         IN  IF ret # None THEN ret
             ELSE MinRing1R1Loop(r1_teeth + 1, max_teeth, target_ratio,
                                 max_error_percent)

find_minimum_ring1_gear_ratio(target_ratio, max_error_percent, max_teeth) ==
    MinRing1R1Loop(RingLow, max_teeth, target_ratio, max_error_percent)

----------------------------------------------------------------------------
(* Inputs of the search *)

\* target_ratio: positive, negative and zero, whole and fractional
TargetRatios ==
    {RInt(n) : n \in {-50, -20, -10, -5, 0, 3, 5, 7, 10, 20, 29, 60, 100}}
        \cup {<<9, 2>>, <<47, 2>>, <<-43, 2>>}

\* the targets of the minimum-error runs: 12 is met exactly by candidates of
\* different I1 and I2
MinErrorTargets == TargetRatios \cup {RInt(12)}

\* max_error_percent (--tolerance), 5.0 being the default
Tolerances == {RInt(n) : n \in {0, 1, 2, 5, 20}} \cup {<<1, 2>>}

MaxTeethValues == RingLow .. MaxTeethBound

----------------------------------------------------------------------------
(* State machine *)

NoFile == [tag |-> "absent"]

Init ==
    /\ tool = "none"
    /\ args = <<>>
    /\ result = None
    /\ out_file = NoFile
    /\ printed = <<>>

\* one call of find_nearest_gear_ratio, in a fresh process
MinErrorCall ==
    /\ tool = "none"
    /\ \E target_ratio \in MinErrorTargets, max_teeth \in MaxTeethValues,
          rounding \in Roundings :
        /\ tool' = "min_error"
        /\ args' = [target_ratio |-> target_ratio, max_teeth |-> max_teeth]
        /\ result' = find_nearest_gear_ratio(target_ratio, max_teeth, rounding)
        /\ UNCHANGED <<out_file, printed>>

\* one call of find_minimum_ring1_gear_ratio, in a fresh process
MinRing1Call ==
    /\ tool = "none"
    /\ \E target_ratio \in TargetRatios, max_error_percent \in Tolerances,
          max_teeth \in MaxTeethValues :
        /\ tool' = "min_ring1"
        /\ args' = [target_ratio |-> target_ratio,
                    max_error_percent |-> max_error_percent,
                    max_teeth |-> max_teeth]
        /\ result' = find_minimum_ring1_gear_ratio(target_ratio, max_error_percent,
                                                   max_teeth)
        /\ UNCHANGED <<out_file, printed>>

NextSearch == MinErrorCall \/ MinRing1Call

SpecSearch == Init /\ [][NextSearch]_vars

----------------------------------------------------------------------------
(* Claims about the search *)

SearchReturnedConfig == tool \in {"min_error", "min_ring1"} /\ result.tag = "config"

\* The search space of the specification: triples (r1, p1, r2) that pass the
\* tooth-count filters and have G # 0
Survivors(max_teeth) ==
    {c \in (20 .. max_teeth - 1) \X (8 .. 29) \X (20 .. max_teeth - 1) :
        LET sun == c[1] - 2 * c[2]
            p2 == c[3] - sun - c[2]
        IN  /\ 2 * c[2] < c[1]
            /\ sun >= 8
            /\ p2 > 0
            /\ (c[1] + sun) % 3 = 0
            /\ c[1] * p2 # c[3] * c[2]}

RatioOf(c) ==
    LET sun == c[1] - 2 * c[2]
        p2 == c[3] - sun - c[2]
    IN  ActualRatio(GearG(c[1], sun, c[2], p2, c[3]))

AbsErrorOf(c, target_ratio) == RAbs(RSub(RatioOf(c), target_ratio))

\* |ratio - target| / |target| * 100 <= tolerance, for target # 0
RelativeErrorWithin(c, target_ratio, tolerance) ==
    RLe(RMul(AbsErrorOf(c, target_ratio), RInt(100)),
        RMul(RAbs(target_ratio), tolerance))

TripleOf(cfg) == <<cfg.r1_teeth, cfg.p1_teeth, cfg.r2_teeth>>

\* C1: every configuration returned by either search mode has
\* 20 <= r1 < max_teeth, 20 <= r2 < max_teeth, 8 <= p1 < min(r1/2, 30),
\* sun = r1 - 2*p1 >= 8, p2 = r2 - sun - p1 > 0 and (r1 + sun) mod 3 = 0.
C1_ReturnedToothCounts ==
    SearchReturnedConfig =>
        /\ 20 <= result.r1_teeth /\ result.r1_teeth < args.max_teeth
        /\ 20 <= result.r2_teeth /\ result.r2_teeth < args.max_teeth
        /\ 8 <= result.p1_teeth
        /\ 2 * result.p1_teeth < result.r1_teeth /\ result.p1_teeth < 30
        /\ result.sun_teeth = result.r1_teeth - 2 * result.p1_teeth
        /\ result.sun_teeth >= 8
        /\ result.p2_teeth = result.r2_teeth - result.sun_teeth - result.p1_teeth
        /\ result.p2_teeth > 0
        /\ (result.r1_teeth + result.sun_teeth) % 3 = 0

\* a returned configuration whose sun has exactly 8 teeth, the smallest the
\* filters allow, with a planet above its lower limit
C1_Witness ==
    /\ SearchReturnedConfig
    /\ result.sun_teeth = 8
    /\ result.p1_teeth > 8

\* C2: for a nonzero target, minimum-error mode returns a surviving candidate
\* whose |ratio - target| is at most that of every surviving candidate of the
\* whole search space r1, r2 in [20, max_teeth).
C2_MinErrorIsGlobalMinimum ==
    (tool = "min_error" /\ ~RIsZero(args.target_ratio)
        /\ Survivors(args.max_teeth) # {}) =>
        /\ result.tag = "config"
        /\ TripleOf(result) \in Survivors(args.max_teeth)
        /\ \A c \in Survivors(args.max_teeth) :
              RLe(AbsErrorOf(TripleOf(result), args.target_ratio),
                  AbsErrorOf(c, args.target_ratio))

\* the best candidate is not the first one of the iteration: it replaced an
\* earlier best, and other candidates are strictly worse
C2_Witness ==
    /\ tool = "min_error" /\ result.tag = "config"
    /\ result.r1_teeth > 26
    /\ \E c \in Survivors(args.max_teeth) :
          RLt(AbsErrorOf(TripleOf(result), args.target_ratio),
              AbsErrorOf(c, args.target_ratio))

\* the candidates that pass the tolerance test of the code
PassingTolerance(target_ratio, max_error_percent, max_teeth) ==
    {c \in Survivors(max_teeth) :
        WithinTolerance(ErrorPercent(RatioOf(c), target_ratio), max_error_percent)}

\* the candidates whose relative error is within the tolerance
WithinRelativeTolerance(target_ratio, max_error_percent, max_teeth) ==
    {c \in Survivors(max_teeth) :
        RelativeErrorWithin(c, target_ratio, max_error_percent)}

\* a comes no later than b in iteration order: r1, then p1, then r2
IterationOrderLe(a, b) ==
    \/ a[1] < b[1]
    \/ a[1] = b[1] /\ a[2] < b[2]
    \/ a[1] = b[1] /\ a[2] = b[2] /\ a[3] <= b[3]

\* C3 as stated, for positive targets: minimum-size mode returns a
\* within-tolerance candidate with the smallest ring_teeth_1 and, among the
\* within-tolerance candidates with that ring_teeth_1, the smallest ring_teeth_2.
C3_SmallestRing1ThenRing2 ==
    (tool = "min_ring1" /\ args.target_ratio[1] > 0 /\ result.tag = "config") =>
        LET W == WithinRelativeTolerance(args.target_ratio, args.max_error_percent,
                                         args.max_teeth)
        IN  /\ TripleOf(result) \in W
            /\ \A c \in W :
                  /\ result.r1_teeth <= c[1]
                  /\ c[1] = result.r1_teeth => result.r2_teeth <= c[3]

\* C3 amended: minimum-size mode returns the first candidate in iteration order
\* (smallest ring_teeth_1, then smallest planet_teeth_1, then smallest
\* ring_teeth_2) among the surviving candidates that pass the tolerance test of
\* the code, and returns None when there is none; for a positive target these
\* are the candidates whose relative error is within the tolerance.
C3_FirstInIterationOrder ==
    (tool = "min_ring1" /\ ~RIsZero(args.target_ratio)) =>
        LET P == PassingTolerance(args.target_ratio, args.max_error_percent,
                                  args.max_teeth)
            W == WithinRelativeTolerance(args.target_ratio, args.max_error_percent,
                                         args.max_teeth)
        IN  /\ args.target_ratio[1] > 0 => P = W
            /\ P = {} => result = None
            /\ P # {} =>
                  /\ result.tag = "config"
                  /\ TripleOf(result) \in P
                  /\ \A c \in P : IterationOrderLe(TripleOf(result), c)

\* a positive target where a later planet_teeth_1 of the same ring_teeth_1
\* has a within-tolerance candidate with a smaller ring_teeth_2
C3_Witness ==
    /\ tool = "min_ring1" /\ args.target_ratio[1] > 0 /\ result.tag = "config"
    /\ \E c \in WithinRelativeTolerance(args.target_ratio, args.max_error_percent,
                                        args.max_teeth) :
          c[1] = result.r1_teeth /\ c[2] > result.p1_teeth /\ c[3] < result.r2_teeth

\* C4: any configuration returned by minimum-size mode, for a nonzero target of
\* either sign, has |actual_ratio - target| / |target| * 100 <= max_error_percent.
C4_ReturnedWithinTolerance ==
    (tool = "min_ring1" /\ ~RIsZero(args.target_ratio) /\ result.tag = "config") =>
        RLe(RMul(RAbs(RSub(result.actual_ratio, args.target_ratio)), RInt(100)),
            RMul(RAbs(args.target_ratio), args.max_error_percent))

\* C5: for a nonzero target the search returns None, without an exception, when
\* no candidate qualifies, and returns a configuration iff one qualifies
\* (mode a: a surviving candidate; mode b: a surviving candidate whose relative
\* error is within the tolerance).
C5_NoneIffNoQualifyingCandidate ==
    /\ (tool = "min_error" /\ ~RIsZero(args.target_ratio)) =>
          /\ result.tag \in {"None", "config"}
          /\ result.tag = "config" <=> Survivors(args.max_teeth) # {}
    /\ (tool = "min_ring1" /\ ~RIsZero(args.target_ratio)) =>
          /\ result.tag \in {"None", "config"}
          /\ result.tag = "config" <=>
                WithinRelativeTolerance(args.target_ratio, args.max_error_percent,
                                        args.max_teeth) # {}

----------------------------------------------------------------------------
(* solve_yaml_params.py: the YAML parameter solver *)

\* largest numerator of a module of the input file (denominators are 1 and 2)
MaxModuleNum == 3

\* a key of a stack dict: missing, present with a null, or present with a value
Absent == [key |-> "absent"]
Null == [key |-> "null"]
Val(x) == [key |-> "value", v |-> x]

\* detect_missing_params: required_params in order, those absent or None
RequiredParams == <<"module", "ring_teeth", "planet_teeth">>

IsMissing(stack_params, param) ==
    stack_params[param] = Absent \/ stack_params[param] = Null

detect_missing_params(stack_params) ==
    SelectSeq(RequiredParams, LAMBDA param : IsMissing(stack_params, param))

\* Python's round() of a float: to the nearest integer, halves to even
RoundMutant(x) == x[1] \div x[2]
Round(x) ==
    LET q == x[1] \div x[2]
        r == x[1] - q * x[2]
    IN  IF 2 * r < x[2] THEN q
        ELSE IF 2 * r > x[2] THEN q + 1
        ELSE IF q % 2 = 0 THEN q ELSE q + 1

\* a / b of Python: ZeroDivisionError for b = 0
PyDivMutant(a, b) == IF RIsZero(b) THEN Val(RInt(0)) ELSE Val(RDiv(a, b))
PyDiv(a, b) == IF RIsZero(b) THEN ZeroDivisionError ELSE Val(RDiv(a, b))

\* m1 = m2 * (nr2 - np2) / (nr1 - np1), or m2 = m1 * (nr1 - np1) / (nr2 - np2)
solve_missing_module_mutant(stack1, stack2, missing_in_stack) ==
    IF missing_in_stack = 1
    THEN PyDiv(RMul(stack2.module.v, RInt(stack1.ring_teeth.v - stack1.planet_teeth.v)),
               RInt(stack2.ring_teeth.v - stack2.planet_teeth.v))
    ELSE PyDiv(RMul(stack1.module.v, RInt(stack2.ring_teeth.v - stack2.planet_teeth.v)),
               RInt(stack1.ring_teeth.v - stack1.planet_teeth.v))
solve_missing_module(stack1, stack2, missing_in_stack) ==
    IF missing_in_stack = 1
    THEN PyDiv(RMul(stack2.module.v, RInt(stack2.ring_teeth.v - stack2.planet_teeth.v)),
               RInt(stack1.ring_teeth.v - stack1.planet_teeth.v))
    ELSE PyDiv(RMul(stack1.module.v, RInt(stack1.ring_teeth.v - stack1.planet_teeth.v)),
               RInt(stack2.ring_teeth.v - stack2.planet_teeth.v))

\* nr1 = np1 + m2 * (nr2 - np2) / m1, or nr2 = np2 + m1 * (nr1 - np1) / m2; round()
solve_missing_ring_teeth(stack1, stack2, missing_in_stack) ==
    LET q == IF missing_in_stack = 1
             THEN PyDiv(RMul(stack2.module.v,
                             RInt(stack2.ring_teeth.v - stack2.planet_teeth.v)),
                        stack1.module.v)
             ELSE PyDiv(RMul(stack1.module.v,
                             RInt(stack1.ring_teeth.v - stack1.planet_teeth.v)),
                        stack2.module.v)
        np == IF missing_in_stack = 1 THEN stack1.planet_teeth.v
              ELSE stack2.planet_teeth.v
    IN  IF q = ZeroDivisionError THEN ZeroDivisionError
        ELSE Val(Round(RAdd(RInt(np), q.v)))

\* np1 = nr1 - m2 * (nr2 - np2) / m1, or np2 = nr2 - m1 * (nr1 - np1) / m2; round()
solve_missing_planet_teeth(stack1, stack2, missing_in_stack) ==
    LET q == IF missing_in_stack = 1
             THEN PyDiv(RMul(stack2.module.v,
                             RInt(stack2.ring_teeth.v - stack2.planet_teeth.v)),
                        stack1.module.v)
             ELSE PyDiv(RMul(stack1.module.v,
                             RInt(stack1.ring_teeth.v - stack1.planet_teeth.v)),
                        stack2.module.v)
        nr == IF missing_in_stack = 1 THEN stack1.ring_teeth.v
              ELSE stack2.ring_teeth.v
    IN  IF q = ZeroDivisionError THEN ZeroDivisionError
        ELSE Val(Round(RSub(RInt(nr), q.v)))

\* ns = nr - 2*np ; return (np*module/2) + (ns*module/2)
get_carrier_radiusMutant(np, nr, module) ==
    RAdd(RDiv(RMul(RInt(np), module), RInt(2)), RDiv(RMul(RInt(nr), module), RInt(2)))
get_carrier_radius(np, nr, module) ==
    LET ns == nr - 2 * np
    IN  RAdd(RDiv(RMul(RInt(np), module), RInt(2)),
             RDiv(RMul(RInt(ns), module), RInt(2)))

\* check_stage_validity(N, ring_teeth, sun_teeth): even spacing of N planets
check_stage_validity(N, ring_teeth, sun_teeth) == (ring_teeth + sun_teeth) % N = 0

\* abs(cr1 - cr2) > 1e-9, i.e. |n| * 10^9 > d (3 * 10^9 exceeds every d of 32 bits)
AboveCarrierTolerance(x) ==
    LET n == Abs(x[1])
    IN  n > 0 /\ (n >= 3 \/ n * 1000000000 > x[2])

Say(msg, value) == [msg |-> msg, value |-> value]

\* lines 216-253: verification, stage validity, the write, return True
VerifyAndWriteMutant(stack1, stack2, said) ==
    [ret |-> TRUE,
     out_file |-> [tag |-> "file", stack_1_params |-> stack1,
                   stack_2_params |->
                       [stack2 EXCEPT !.profile_shift = stack1.profile_shift]],
     printed |-> said \o << Say("Complete configuration written", TRUE) >>]
VerifyAndWrite(stack1, stack2, said) ==
    LET cr1 == get_carrier_radius(stack1.planet_teeth.v, stack1.ring_teeth.v,
                                  stack1.module.v)
        cr2 == get_carrier_radius(stack2.planet_teeth.v, stack2.ring_teeth.v,
                                  stack2.module.v)
        difference == RAbs(RSub(cr1, cr2))
        sun_teeth_1 == stack1.ring_teeth.v - 2 * stack1.planet_teeth.v
        valid1 == check_stage_validity(3, stack1.ring_teeth.v, sun_teeth_1)
    IN  [ret |-> TRUE,
         out_file |-> [tag |-> "file",
                       stack_1_params |-> stack1, stack_2_params |-> stack2],
         printed |-> said \o
             << Say("Carrier radius 1", cr1), Say("Carrier radius 2", cr2),
                Say("Difference", difference),
                IF AboveCarrierTolerance(difference)
                THEN Say("WARNING: Carrier radii do not match", difference)
                ELSE Say("Carrier radii match", difference),
                Say("Stack 1 valid", valid1),
                Say("Complete configuration written", TRUE) >>]

\* lines 185-214: the dispatch on the one missing parameter
Solve(param, stack1, stack2, stack_num) ==
    IF param = "module" THEN solve_missing_module(stack1, stack2, stack_num)
    ELSE IF param = "ring_teeth" THEN solve_missing_ring_teeth(stack1, stack2, stack_num)
    ELSE solve_missing_planet_teeth(stack1, stack2, stack_num)

\* elif total_missing > 1:
TooManyMissing(total_missing) == total_missing > 1

\* lines 181-183: the diagnostic, return False, nothing written
TooManyMissingReturnMutant(old_file, said, total_missing) ==
    [ret |-> TRUE, out_file |-> old_file,
     printed |-> said \o
         << Say("ERROR: Too many missing parameters", total_missing) >>]
TooManyMissingReturn(old_file, said, total_missing) ==
    [ret |-> FALSE, out_file |-> old_file,
     printed |-> said \o
         << Say("ERROR: Too many missing parameters", total_missing) >>]

\* solve_and_complete_config on the parsed input, with the output file as found
solve_and_complete_config(config, old_file) ==
    LET stack1 == config.stack_1_params
        stack2 == config.stack_2_params
        missing_stack1 == detect_missing_params(stack1)
        missing_stack2 == detect_missing_params(stack2)
        total_missing == Len(missing_stack1) + Len(missing_stack2)
        said == << Say("Stack 1 missing", missing_stack1),
                   Say("Stack 2 missing", missing_stack2) >>
    IN  IF total_missing = 0
        THEN VerifyAndWrite(stack1, stack2,
                            said \o << Say("No missing parameters", TRUE) >>)
        ELSE IF TooManyMissing(total_missing)
        THEN TooManyMissingReturn(old_file, said, total_missing)
        ELSE LET stack_num == IF missing_stack1 # <<>> THEN 1 ELSE 2
                 param == IF missing_stack1 # <<>> THEN missing_stack1[1]
                          ELSE missing_stack2[1]
                 solved_value == Solve(param, stack1, stack2, stack_num)
                 solving == said \o << Say("Solving for", <<stack_num, param>>) >>
             IN  IF solved_value = ZeroDivisionError
                 THEN [ret |-> FALSE, out_file |-> old_file,
                       printed |-> solving \o
                           << Say("ERROR: Could not solve", param) >>]
                 ELSE VerifyAndWrite(
                          IF stack_num = 1
                          THEN [stack1 EXCEPT ![param] = solved_value] ELSE stack1,
                          IF stack_num = 2
                          THEN [stack2 EXCEPT ![param] = solved_value] ELSE stack2,
                          solving \o << Say("Solved", solved_value) >>)

----------------------------------------------------------------------------
(* Inputs of the solver *)

Modules == {Norm(n, d) : n \in 0 .. MaxModuleNum, d \in {1, 2}}
RingTeethValues == {21, 53, 54}
PlanetTeethValues == {20, 21}

OrMissing(S) == {Val(x) : x \in S} \cup {Null, Absent}

Stack1Inputs ==
    [module : OrMissing(Modules), ring_teeth : OrMissing(RingTeethValues),
     planet_teeth : OrMissing(PlanetTeethValues),
     pressure_angle : {Val(RInt(20))}, profile_shift : {Val(<<127, 2500>>)},
     has_sun : {Val(TRUE)}]

Stack2Inputs ==
    [module : OrMissing(Modules), ring_teeth : OrMissing(RingTeethValues),
     planet_teeth : OrMissing(PlanetTeethValues),
     pressure_angle : {Val(RInt(20))}, profile_shift : {Val(RInt(0))},
     has_sun : {Absent}]

\* an output file left by an earlier run
StaleFile == [tag |-> "stale"]

SolverInit ==
    /\ tool = "none"
    /\ args = <<>>
    /\ result = None
    /\ out_file \in {NoFile, StaleFile}
    /\ printed = <<>>

\* main() with an input file that exists: solve_and_complete_config, exit code
SolverRun ==
    /\ tool = "none"
    /\ \E stack1 \in Stack1Inputs, stack2 \in Stack2Inputs :
        LET config == [stack_1_params |-> stack1, stack_2_params |-> stack2]
            done == solve_and_complete_config(config, out_file)
        IN  /\ tool' = "solver"
            /\ args' = config
            /\ result' = [ret |-> done.ret, exit_code |-> IF done.ret THEN 0 ELSE 1]
            /\ out_file' = done.out_file
            /\ printed' = done.printed

\* main() with an input path that does not exist
SolverInputNotFound ==
    /\ tool = "none"
    /\ tool' = "solver_no_input"
    /\ args' = <<>>
    /\ result' = [ret |-> FALSE, exit_code |-> 1]
    /\ printed' = << Say("ERROR: Input file not found", TRUE) >>
    /\ UNCHANGED out_file

NextSolver == SolverRun \/ SolverInputNotFound

SpecSolver == SolverInit /\ [][NextSolver]_vars

----------------------------------------------------------------------------
(* analysis-tools/gear_ratio_calculator.py: the carrier-angle solver *)

\* largest num_planets handed to get_carrier_angles
MaxPlanets == 5

IndexError == [tag |-> "IndexError"]

RFloor(x) == x[1] \div x[2]
RIsInteger(x) == RInt(RFloor(x)) = x

\* angdiv = (r1_teeth + sun_teeth)/num_planets ; np.floor(angdiv) == angdiv
IsEvenSpacingMutant(num_planets, r1_teeth, sun_teeth) ==
    RIsInteger(RDiv(RInt(r1_teeth), RInt(num_planets)))
IsEvenSpacing(num_planets, r1_teeth, sun_teeth) ==
    RIsInteger(RDiv(RInt(r1_teeth + sun_teeth), RInt(num_planets)))

\* ang = 360/num_planets ; return [ang,ang,ang]
EvenAngles(num_planets) ==
    LET ang == RDiv(RInt(360), RInt(num_planets))
    IN  <<ang, ang, ang>>

\* np.mod(anglep2p + 180, 360) - 180
WrapAngle(anglep2p) ==
    LET y == RAdd(anglep2p, RInt(180))
        turns == RFloor(RDiv(y, RInt(360)))
    IN  RSub(RSub(y, RInt(360 * turns)), RInt(180))

\* lines 79-80: the wrapped angle of counter n
AngleAt(tooth_sum, n) ==
    WrapAngle(RMul(RDiv(RInt(360), RInt(tooth_sum)), RInt(n)))

\* lines 83-86: counter n appends an integer angle below zero and breaks
BreaksAt(tooth_sum, n) ==
    RIsInteger(AngleAt(tooth_sum, n)) /\ RLt(AngleAt(tooth_sum, n), RInt(0))

\* the loop of lines 78-86: the integer angles of n = 1, 2, ... in order, up
\* to and including the first one below zero.  The angles repeat with period
\* r1_teeth + sun_teeth, so a loop that has not left by then runs on to the
\* end of range(1, 10000000000).
CollectAngles(tooth_sum) ==
    LET breaks == {n \in 1 .. tooth_sum : BreaksAt(tooth_sum, n)}
        last == CHOOSE n \in breaks : \A other \in breaks : n <= other
    IN  IF breaks = {} THEN [tag |-> "runs on", set |-> <<>>]
        ELSE [tag |-> "break",
              set |-> SelectSeq([n \in 1 .. last |-> AngleAt(tooth_sum, n)],
                                RIsInteger)]

\* triplet_val.sort() of three angles
Sort3(a, b, c) ==
    LET lo == IF RLe(a, b) /\ RLe(a, c) THEN a ELSE IF RLe(b, c) THEN b ELSE c
        hi == IF RLe(b, a) /\ RLe(c, a) THEN a ELSE IF RLe(c, b) THEN b ELSE c
    IN  <<lo, RSub(RAdd(RAdd(a, b), c), RAdd(lo, hi)), hi>>

Contains(seq, x) == \E m \in 1 .. Len(seq) : seq[m] = x

\* lines 88-90: the index pairs (i, j) with i != j, in the order the two
\* loops visit them
IndexPairs(set) ==
    LET len == Len(set)
    IN  SelectSeq([m \in 1 .. len * len |->
                      <<((m - 1) \div len) + 1, ((m - 1) % len) + 1>>],
                  LAMBDA p : p[1] # p[2])

\* line 91: val = 360 - (set[i] + set[j])
TripletValMutant(set, p) == RSub(RInt(180), RAdd(set[p[1]], set[p[2]]))
TripletVal(set, p) == RSub(RInt(360), RAdd(set[p[1]], set[p[2]]))

\* lines 92-96: the sorted triplet of each pair for which some k passes
\* set[k] == val, in loop order (every passing k of one pair builds the same
\* triplet, as set[k] equals val)
FoundTriplets(set) ==
    LET hits == SelectSeq(IndexPairs(set),
                          LAMBDA p : Contains(set, TripletVal(set, p)))
    IN  [m \in 1 .. Len(hits) |->
            Sort3(set[hits[m][1]], set[hits[m][2]], TripletVal(set, hits[m]))]

\* lines 97-98: if triplet_val not in triplets: triplets.append(triplet_val),
\* which keeps the first occurrence of each found triplet
Triplets(set) ==
    LET found == FoundTriplets(set)
        first == SelectSeq([m \in 1 .. Len(found) |-> m],
                           LAMBDA m : \A e \in 1 .. m - 1 : found[e] # found[m])
    IN  [m \in 1 .. Len(first) |-> found[first[m]]]

get_carrier_angles(num_planets, r1_teeth, sun_teeth) ==
    IF IsEvenSpacing(num_planets, r1_teeth, sun_teeth)
    THEN [tag |-> "return", branch |-> "even", angles |-> EvenAngles(num_planets)]
    ELSE LET collected == CollectAngles(r1_teeth + sun_teeth)
             triplets == Triplets(collected.set)
         IN  IF collected.tag = "runs on"
             THEN [tag |-> "runs on", branch |-> "eccentric", angles |-> <<>>]
             ELSE IF triplets = <<>>
             THEN [tag |-> "IndexError", branch |-> "eccentric", angles |-> <<>>]
             ELSE [tag |-> "return", branch |-> "eccentric",
                   angles |-> triplets[Len(triplets)]]

(* Inputs of the carrier-angle solver *)

PlanetCounts == 1 .. MaxPlanets
AngleRingTeeth == {48, 53, 54, 58, 60}
AngleSunTeeth == {8, 10, 12, 16, 26}

\* one call of get_carrier_angles, in a fresh process
GetCarrierAnglesCall ==
    /\ tool = "none"
    /\ \E num_planets \in PlanetCounts, r1_teeth \in AngleRingTeeth,
          sun_teeth \in AngleSunTeeth :
        /\ tool' = "angles"
        /\ args' = [num_planets |-> num_planets, r1_teeth |-> r1_teeth,
                    sun_teeth |-> sun_teeth]
        /\ result' = get_carrier_angles(num_planets, r1_teeth, sun_teeth)
        /\ UNCHANGED <<out_file, printed>>

NextAngles == GetCarrierAnglesCall

SpecAngles == Init /\ [][NextAngles]_vars

----------------------------------------------------------------------------
(* Properties of the YAML parameter solver *)

StackKeys == {"stack_1_params", "stack_2_params"}

\* the cross-stage parameters that are absent or null in a parsed input
CrossStageMissing(config) ==
    {<<s, param>> \in StackKeys \X {"module", "ring_teeth", "planet_teeth"} :
        config[s][param] \in {Absent, Null}}

Printed(msg) == \E m \in 1 .. Len(printed) : printed[m].msg = msg

\* this run of the solver wrote the output file
SolverWrote == tool = "solver" /\ out_file.tag = "file"

\* (ring - planet) * module of a written stack
CarrierProduct(stack) ==
    RMul(RInt(stack.ring_teeth.v - stack.planet_teeth.v), stack.module.v)

\* |(ring_1 - planet_1)*module_1 - (ring_2 - planet_2)*module_2| of the file
WrittenResidual ==
    RAbs(RSub(CarrierProduct(out_file.stack_1_params),
              CarrierProduct(out_file.stack_2_params)))

\* x < 1e-9 for a rational x >= 0
BelowCarrierTolerance(x) == x[1] = 0 \/ (x[1] <= 2 /\ x[1] * 1000000000 < x[2])

\* C6: every configuration the solver writes to the output file satisfies
\* the carrier-matching constraint
\* |(ring_1 - planet_1)*module_1 - (ring_2 - planet_2)*module_2| < 1e-9.
C6_WrittenConfigMatchesCarriers ==
    SolverWrote => BelowCarrierTolerance(WrittenResidual)

\* the one missing parameter of the input is the module of stack s
OnlyModuleMissing(s) ==
    /\ tool = "solver"
    /\ \E how \in {Absent, Null} : args[s].module = how
    /\ Cardinality(CrossStageMissing(args)) = 1

\* module_other * (ring_other - planet_other) / (ring_s - planet_s), where it
\* is defined
ModuleByCarrierEquation(given, unknown) ==
    RDiv(CarrierProduct(given),
         RInt(unknown.ring_teeth.v - unknown.planet_teeth.v))

\* C7: when the unknown is a module and the solver writes its result,
\* module_2 = module_1*(ring_1 - planet_1)/(ring_2 - planet_2) (symmetrically
\* for module_1), the two carrier products are equal after substitution, and
\* module_1 = 0.5, ring_1 = 54, planet_1 = 21, ring_2 = 53, planet_2 = 20
\* gives module_2 = 0.5.
C7_ModuleSolvedByCarrierEquation ==
    /\ (OnlyModuleMissing("stack_2_params") /\ out_file.tag = "file") =>
          /\ out_file.stack_2_params.module =
                Val(ModuleByCarrierEquation(args.stack_1_params, args.stack_2_params))
          /\ CarrierProduct(out_file.stack_1_params) =
                CarrierProduct(out_file.stack_2_params)
    /\ (OnlyModuleMissing("stack_1_params") /\ out_file.tag = "file") =>
          /\ out_file.stack_1_params.module =
                Val(ModuleByCarrierEquation(args.stack_2_params, args.stack_1_params))
          /\ CarrierProduct(out_file.stack_1_params) =
                CarrierProduct(out_file.stack_2_params)
    /\ (/\ OnlyModuleMissing("stack_2_params")
        /\ args.stack_1_params.module = Val(<<1, 2>>)
        /\ args.stack_1_params.ring_teeth = Val(54)
        /\ args.stack_1_params.planet_teeth = Val(21)
        /\ args.stack_2_params.ring_teeth = Val(53)
        /\ args.stack_2_params.planet_teeth = Val(20)) =>
          /\ out_file.tag = "file"
          /\ out_file.stack_2_params.module = Val(<<1, 2>>)

\* the run that solves module_2 from module_1 = 0.5, ring_1 = 54,
\* planet_1 = 21, ring_2 = 53, planet_2 = 20 and writes 0.5
C7_Witness ==
    /\ OnlyModuleMissing("stack_2_params")
    /\ args.stack_1_params.module = Val(<<1, 2>>)
    /\ args.stack_1_params.ring_teeth = Val(54)
    /\ args.stack_1_params.planet_teeth = Val(21)
    /\ args.stack_2_params.ring_teeth = Val(53)
    /\ args.stack_2_params.planet_teeth = Val(20)
    /\ out_file.tag = "file"
    /\ out_file.stack_2_params.module = Val(<<1, 2>>)

\* C8: a run of the solver whose input lacks more than one of the six
\* cross-stage parameters prints a diagnostic, returns failure with a nonzero
\* exit code, and leaves the output file as it found it.
C8_TooManyMissingFails ==
    [][(tool' = "solver" /\ Cardinality(CrossStageMissing(args')) > 1) =>
          /\ out_file' = out_file
          /\ result'.ret = FALSE
          /\ result'.exit_code # 0
          /\ \E m \in 1 .. Len(printed') :
                printed'[m].msg = "ERROR: Too many missing parameters"]_vars

\* a run with two parameters missing that found an older output file
C8_Witness ==
    /\ tool = "solver"
    /\ Cardinality(CrossStageMissing(args)) = 2
    /\ out_file = StaleFile
    /\ result.exit_code = 1
    /\ Printed("ERROR: Too many missing parameters")

----------------------------------------------------------------------------
(* Properties of the carrier-angle solver *)

\* (ring_teeth + sun_teeth) mod N == 0 for the arguments of the call
TeethDivisible == (args.r1_teeth + args.sun_teeth) % args.num_planets = 0

\* C9: the stage validity test is true iff (ring_teeth + sun_teeth) mod N == 0;
\* get_carrier_angles takes its even-spacing branch exactly then, and for
\* N = 3 exactly when the search's spacing filter lets the pair through.
C9_EvenSpacingIffDivisible ==
    tool = "angles" =>
        /\ check_stage_validity(args.num_planets, args.r1_teeth, args.sun_teeth)
              <=> TeethDivisible
        /\ result.branch = "even" <=> TeethDivisible
        /\ args.num_planets = 3 =>
              (result.branch = "even"
                  <=> ~SpacingRejected(args.r1_teeth, args.sun_teeth))

\* three planets on ring 54, sun 12: 66 mod 3 = 0, the even branch is taken
C9_Witness ==
    /\ tool = "angles"
    /\ args = [num_planets |-> 3, r1_teeth |-> 54, sun_teeth |-> 12]
    /\ result.branch = "even"
    /\ ~SpacingRejected(54, 12)

RECURSIVE RSum(_)
RSum(seq) == IF seq = <<>> THEN RInt(0) ELSE RAdd(seq[1], RSum(Tail(seq)))

\* C10: for N >= 1 and (ring_teeth + sun_teeth) mod N == 0, get_carrier_angles
\* returns exactly N angles, each 360/N, whose sum is 360 degrees.
C10_EvenCaseReturnsNAngles ==
    (tool = "angles" /\ TeethDivisible) =>
        /\ result.tag = "return"
        /\ Len(result.angles) = args.num_planets
        /\ \A m \in 1 .. Len(result.angles) :
              result.angles[m] = RDiv(RInt(360), RInt(args.num_planets))
        /\ RSum(result.angles) = RInt(360)

\* the call took the eccentric branch and returned a triple
EccentricReturned ==
    tool = "angles" /\ result.branch = "eccentric" /\ result.tag = "return"

\* the integer-degree values of mod(360*n/(ring+sun) + 180, 360) - 180 over
\* the positive integers n (the values repeat with period ring + sun)
IntegerDegreeAngles(tooth_sum) ==
    {AngleAt(tooth_sum, n) : n \in {k \in 1 .. tooth_sum :
                                       RIsInteger(AngleAt(tooth_sum, k))}}

\* C11: in the eccentric case the returned triple (a, b, c) has
\* a + b + c = 360, and each of a, b, c is a member of the collected candidate
\* set, an integer-degree value of mod(360*n/(ring+sun) + 180, 360) - 180.
C11_EccentricTripleSumsTo360 ==
    EccentricReturned =>
        LET tooth_sum == args.r1_teeth + args.sun_teeth
        IN  /\ ~TeethDivisible
            /\ Len(result.angles) = 3
            /\ RSum(result.angles) = RInt(360)
            /\ \A m \in 1 .. 3 :
                  /\ Contains(CollectAngles(tooth_sum).set, result.angles[m])
                  /\ result.angles[m] \in IntegerDegreeAngles(tooth_sum)

\* three planets on ring 48, sun 8: the triple (90, 135, 135)
C11_Witness ==
    /\ EccentricReturned
    /\ args = [num_planets |-> 3, r1_teeth |-> 48, sun_teeth |-> 8]
    /\ result.angles = <<RInt(90), RInt(135), RInt(135)>>

\* the angles the collection loop of a call gathers: the collected set when
\* the loop leaves by its break, every integer-degree angle when it runs on
CandidateAngles(tooth_sum) ==
    LET collected == CollectAngles(tooth_sum)
    IN  IF collected.tag = "break"
        THEN {collected.set[m] : m \in 1 .. Len(collected.set)}
        ELSE IntegerDegreeAngles(tooth_sum)

\* no three candidate angles, repetition allowed, sum to 360
NoTripleSumsTo360(tooth_sum) ==
    LET S == CandidateAngles(tooth_sum)
    IN  \A a \in S, b \in S : RSub(RInt(360), RAdd(a, b)) \notin S

\* C12: when (ring + sun) mod N != 0 and no triple of candidate angles sums
\* to 360, the call ends in an error outcome that a caller can tell from a
\* return (here: any raised error counts) and hands back no angles.
C12_NoTripleEndsInError ==
    (tool = "angles" /\ ~TeethDivisible
        /\ NoTripleSumsTo360(args.r1_teeth + args.sun_teeth)) =>
            /\ result.tag = "IndexError"
            /\ result.angles = <<>>

----------------------------------------------------------------------------
(* GearGeneratorFreecad.py: planet placements.  A placement matrix built
   from Hz and an offset in the x-y plane and along z is kept as its rotation
   about z (degrees, modulo 360), the offset in polar form (signed radius and
   direction, degrees modulo 360) and the z offset; sines and cosines are not
   evaluated. *)

FileNotFoundError == [tag |-> "FileNotFoundError"]

\* an angle reduced to [0, 360): Hz(a) and Hz(a + 360) are the same matrix
Mod360(x) == RSub(x, RInt(360 * RFloor(RDiv(x, RInt(360)))))

\* the direction of an offset; a zero radius has direction 0
Direction(radius, dir) == IF RIsZero(radius) THEN RInt(0) ELSE Mod360(dir)

\* Hz(angle), the angle in degrees
Hz(angle) ==
    [rot |-> Mod360(angle), radius |-> RInt(0), dir |-> RInt(0), z |-> RInt(0)]

\* m[0][3] = radius ; m[2][3] = z  on m = Hz(0)
BaseLoc(radius, z) ==
    [rot |-> RInt(0), radius |-> radius, dir |-> RInt(0), z |-> z]

HasOffset(M) == ~RIsZero(M.radius) \/ ~RIsZero(M.z)

\* A.dot(B): the rotations add, the offset of B is turned by the rotation of
\* A and added to the offset of A.  The generator never multiplies two
\* matrices that both carry an offset.
Dot(A, B) ==
    IF ~HasOffset(B)
    THEN [rot |-> Mod360(RAdd(A.rot, B.rot)),
          radius |-> A.radius, dir |-> A.dir, z |-> A.z]
    ELSE IF ~HasOffset(A)
    THEN [rot |-> Mod360(RAdd(A.rot, B.rot)),
          radius |-> B.radius, dir |-> Direction(B.radius, RAdd(B.dir, A.rot)),
          z |-> B.z]
    ELSE [rot |-> Mod360(RAdd(A.rot, B.rot)),
          radius |-> "offset plus offset", dir |-> "offset plus offset",
          z |-> RAdd(A.z, B.z)]

\* -ca*np.pi/180*ring_teeth/planet_teeth, in degrees
SelfRotation(ca, ring_teeth, planet_teeth) ==
    PyDiv(RMul(RInt(-ca), RInt(ring_teeth)), RInt(planet_teeth))

\* lines 122-123 and 125-126: Hz(ca).dot(m_c1_1), then .dot(Hz(-ca*r1/p1))
PlaceAt(ca, base, ring_teeth, planet_teeth) ==
    LET turn == SelfRotation(ca, ring_teeth, planet_teeth)
    IN  IF turn = ZeroDivisionError THEN ZeroDivisionError
        ELSE Dot(Dot(Hz(RInt(ca)), base), Hz(turn.v))

\* lines 267-268 and 273-274: the 120 degree step applied to a placement
Step120Mutant(m, ring_teeth, planet_teeth) ==
    LET turn == SelfRotation(240, ring_teeth, planet_teeth)
    IN  IF turn = ZeroDivisionError THEN ZeroDivisionError
        ELSE Dot(Dot(Hz(RInt(120)), m), Hz(turn.v))
Step120(m, ring_teeth, planet_teeth) ==
    LET turn == SelfRotation(120, ring_teeth, planet_teeth)
    IN  IF turn = ZeroDivisionError THEN ZeroDivisionError
        ELSE Dot(Dot(Hz(RInt(120)), m), Hz(turn.v))

\* abs(s1_carrier_radius - s2_carrier_radius) > 1e-9: the warning of line 115
RadiusWarningMutant(radius_error) == << >>
RadiusWarning(radius_error) ==
    IF AboveCarrierTolerance(radius_error)
    THEN << Say("Warning - carrier mismatch", radius_error) >>
    ELSE << >>

\* lines 42-50 and 111-126, 256-274 on the stacks loaded from srcp.yaml
Generate(s1, s2) ==
    LET p1_teeth == s1.planet_teeth.v
        r1_teeth == s1.ring_teeth.v
        r2_teeth == s2.ring_teeth.v
        p2_teeth == s2.planet_teeth.v
        s1_module == s1.module.v
        s2_module == s2.module.v
        r1_height == RMul(s1_module, RInt(5))
        s1_carrier_radius == get_carrier_radius(p1_teeth, r1_teeth, s1_module)
        s2_carrier_radius == get_carrier_radius(p2_teeth, r2_teeth, s2_module)
        radius_error == RAbs(RSub(s1_carrier_radius, s2_carrier_radius))
        said == << Say("Loaded configuration", TRUE) >> \o RadiusWarning(radius_error)
        m_c1_1 == BaseLoc(s1_carrier_radius, RInt(0))
        m_c2_1 == PlaceAt(120, m_c1_1, r1_teeth, p1_teeth)
        m_c3_1 == PlaceAt(240, m_c1_1, r1_teeth, p1_teeth)
        m_c1_2 == BaseLoc(s2_carrier_radius, r1_height)
        m_c2_2 == Step120(m_c1_2, r2_teeth, p2_teeth)
        m_c3_2 == Step120(m_c2_2, r2_teeth, p2_teeth)
    IN  IF m_c2_1 = ZeroDivisionError \/ m_c2_2 = ZeroDivisionError
        THEN [result |-> ZeroDivisionError, printed |-> said]
        ELSE [result |-> [tag |-> "placements",
                          s1_carrier_radius |-> s1_carrier_radius,
                          s2_carrier_radius |-> s2_carrier_radius,
                          r1_height |-> r1_height,
                          m_c1_1 |-> m_c1_1, m_c2_1 |-> m_c2_1, m_c3_1 |-> m_c3_1,
                          m_c1_2 |-> m_c1_2, m_c2_2 |-> m_c2_2, m_c3_2 |-> m_c3_2],
              printed |-> said]

\* the macro run after the solver has written srcp.yaml
GeneratorRun ==
    /\ tool = "solver"
    /\ out_file.tag = "file"
    /\ LET done == Generate(out_file.stack_1_params, out_file.stack_2_params)
       IN  /\ tool' = "generator"
           /\ args' = [stack_1_params |-> out_file.stack_1_params,
                       stack_2_params |-> out_file.stack_2_params]
           /\ result' = done.result
           /\ printed' = done.printed
    /\ UNCHANGED out_file

\* the macro run where no srcp.yaml exists: open() of line 32 fails
GeneratorNoConfig ==
    /\ tool \in {"solver", "solver_no_input"}
    /\ out_file = NoFile
    /\ tool' = "generator"
    /\ args' = <<>>
    /\ result' = FileNotFoundError
    /\ printed' = <<>>
    /\ UNCHANGED out_file

NextGenerator == SolverRun \/ SolverInputNotFound \/ GeneratorRun \/ GeneratorNoConfig

SpecGenerator == SolverInit /\ [][NextGenerator]_vars

----------------------------------------------------------------------------
(* Properties of the planet placements *)

GeneratorPlaced == tool = "generator" /\ result.tag = "placements"

\* rotation by theta about the shared axis applied to the reference placement
\* (offset radius along x, z along the axis), followed by a self-rotation of
\* -theta * (ring_teeth / planet_teeth)
RotatedPlacement(theta, radius, z, ring_teeth, planet_teeth) ==
    [rot |-> Mod360(RSub(RInt(theta),
                         RDiv(RInt(theta * ring_teeth), RInt(planet_teeth)))),
     radius |-> radius,
     dir |-> IF RIsZero(radius) THEN RInt(0) ELSE RInt(theta),
     z |-> z]

\* C13: in each stage the planets at carrier angle 120 and 240 are placed by
\* rotating the reference placement by that angle about the shared axis and
\* then turning the planet by -angle * (ring_teeth / planet_teeth); the third
\* planet of stage 2, built by applying the 120 degree step to the second
\* planet's transform, equals the direct formula for 240 degrees.
C13_PlacementsFollowFormula ==
    GeneratorPlaced =>
        LET s1 == args.stack_1_params
            s2 == args.stack_2_params
            radius1 == get_carrier_radius(s1.planet_teeth.v, s1.ring_teeth.v, s1.module.v)
            radius2 == get_carrier_radius(s2.planet_teeth.v, s2.ring_teeth.v, s2.module.v)
            height == RMul(s1.module.v, RInt(5))
        IN  /\ result.m_c2_1 = RotatedPlacement(120, radius1, RInt(0),
                                                s1.ring_teeth.v, s1.planet_teeth.v)
            /\ result.m_c3_1 = RotatedPlacement(240, radius1, RInt(0),
                                                s1.ring_teeth.v, s1.planet_teeth.v)
            /\ result.m_c2_2 = RotatedPlacement(120, radius2, height,
                                                s2.ring_teeth.v, s2.planet_teeth.v)
            /\ result.m_c3_2 = RotatedPlacement(240, radius2, height,
                                                s2.ring_teeth.v, s2.planet_teeth.v)

\* module 0.5, ring 54 and planet 21 over ring 53 and planet 20: the third
\* planet of stage 2 sits at 240 degrees, turned by 240 - 240*53/20 = -396,
\* that is 324 degrees
C13_Witness ==
    /\ GeneratorPlaced
    /\ args.stack_1_params.ring_teeth = Val(54)
    /\ args.stack_1_params.planet_teeth = Val(21)
    /\ args.stack_2_params.ring_teeth = Val(53)
    /\ args.stack_2_params.planet_teeth = Val(20)
    /\ args.stack_2_params.module = Val(<<1, 2>>)
    /\ result.m_c3_2.dir = RInt(240)
    /\ result.m_c3_2.rot = RInt(324)
    /\ result.m_c3_2.radius = <<33, 4>>

----------------------------------------------------------------------------
(* optimize_gear_ratio.py write_config_yaml and test_yaml_integration.py
   load_config.  srcp.yaml is kept as its sections and keys, each scalar of
   tooth_counts and gear_parameters as the characters yaml.dump writes for
   it.  The floats given on the command line are decimal fractions between
   1e-4 and 1e16 in magnitude, which repr prints in positional notation
   without an exponent. *)

DigitChars == <<"0", "1", "2", "3", "4", "5", "6", "7", "8", "9">>

DigitValue(c) == CHOOSE d \in 0 .. 9 : DigitChars[d + 1] = c

\* the decimal digits of a natural number
RECURSIVE Digits(_)
Digits(n) ==
    IF n < 10 THEN << DigitChars[n + 1] >>
    ELSE Digits(n \div 10) \o << DigitChars[(n % 10) + 1] >>

\* the digits after the point of r/d, r < d, d dividing a power of ten
RECURSIVE FracDigitsMutant(_, _)
FracDigitsMutant(r, d) ==
    IF r = 0 THEN << >>
    ELSE IF (r * 10) \div d = 0 THEN FracDigitsMutant((r * 10) % d, d)
    ELSE << DigitChars[((r * 10) \div d) + 1] >> \o FracDigitsMutant((r * 10) % d, d)
RECURSIVE FracDigits(_, _)
FracDigits(r, d) ==
    IF r = 0 THEN << >>
    ELSE << DigitChars[((r * 10) \div d) + 1] >> \o FracDigits((r * 10) % d, d)

\* yaml represent_int: str(data)
represent_int(n) == IF n < 0 THEN << "-" >> \o Digits(-n) ELSE Digits(n)

\* yaml represent_float: repr(data), which always holds a point
represent_float(x) ==
    LET n == Abs(x[1])
        frac == FracDigits(n % x[2], x[2])
    IN  (IF x[1] < 0 THEN << "-" >> ELSE << >>)
            \o Digits(n \div x[2]) \o << "." >>
            \o (IF frac = << >> THEN << "0" >> ELSE frac)

\* the value of a sequence of digits
RECURSIVE DigitsValue(_)
DigitsValue(text) ==
    IF text = << >> THEN 0
    ELSE DigitsValue(SubSeq(text, 1, Len(text) - 1)) * 10 + DigitValue(text[Len(text)])

RECURSIVE Pow10(_)
Pow10(k) == IF k = 0 THEN 1 ELSE 10 * Pow10(k - 1)

\* yaml safe_load of a plain scalar: a float where it holds a point, an int
\* otherwise
construct_scalar(text) ==
    LET negative == text[1] = "-"
        body == IF negative THEN Tail(text) ELSE text
        sign == IF negative THEN -1 ELSE 1
        points == {i \in 1 .. Len(body) : body[i] = "."}
    IN  IF points = {}
        THEN sign * DigitsValue(body)
        ELSE LET at == CHOOSE i \in points : TRUE
                 whole == SubSeq(body, 1, at - 1)
                 frac == SubSeq(body, at + 1, Len(body))
             IN  Norm(sign * (DigitsValue(whole) * Pow10(Len(frac)) + DigitsValue(frac)),
                      Pow10(Len(frac)))

\* the config of lines 135-152 as yaml.dump writes it
write_config_yaml(res, pitch_mm, pressure_angle, profile_shift) ==
    [tag |-> "yaml",
     gear_ratios |-> [target_ratio |-> res.target_ratio,
                      actual_ratio |-> res.actual_ratio,
                      error_percent |-> res.error_percent],
     tooth_counts |-> [sun_teeth |-> represent_int(res.sun_teeth),
                       p1_teeth |-> represent_int(res.p1_teeth),
                       r1_teeth |-> represent_int(res.r1_teeth),
                       p2_teeth |-> represent_int(res.p2_teeth),
                       r2_teeth |-> represent_int(res.r2_teeth)],
     gear_parameters |-> [module |-> represent_float(pitch_mm),
                          pressure_angle |-> represent_float(pressure_angle),
                          profile_shift |-> represent_float(profile_shift)]]

DefaultConfig ==
    [tag |-> "loaded", p1_teeth |-> 21, r1_teeth |-> 54, r2_teeth |-> 53,
     sun_teeth |-> 12, p2_teeth |-> 20, pitch_mm |-> <<1, 2>>,
     pressure_angle |-> RInt(20), profile_shift |-> <<127, 2500>>]

\* test_yaml_integration.py load_config on the file, NoFile raising
\* FileNotFoundError inside the try
load_config(file) ==
    IF file = NoFile
    THEN [result |-> DefaultConfig,
          printed |-> << Say("srcp.yaml not found, using default parameters", TRUE) >>]
    ELSE LET tooth_counts == file.tooth_counts
             gear_params == file.gear_parameters
         IN  [result |-> [tag |-> "loaded",
                          p1_teeth |-> construct_scalar(tooth_counts.p1_teeth),
                          r1_teeth |-> construct_scalar(tooth_counts.r1_teeth),
                          r2_teeth |-> construct_scalar(tooth_counts.r2_teeth),
                          sun_teeth |-> construct_scalar(tooth_counts.sun_teeth),
                          p2_teeth |-> construct_scalar(tooth_counts.p2_teeth),
                          pitch_mm |-> construct_scalar(gear_params.module),
                          pressure_angle |-> construct_scalar(gear_params.pressure_angle),
                          profile_shift |-> construct_scalar(gear_params.profile_shift)],
              printed |-> << Say("Loaded configuration", TRUE) >>]

\* --module, --pressure-angle and --profile-shift, the defaults among them
PitchValues == {<<1, 2>>, <<3, 10>>, RInt(2)}
PressureAngles == {RInt(20), <<29, 2>>}
ProfileShifts == {<<127, 2500>>, RInt(0), <<-1, 20>>}

\* lines 212-214 and 230-232 of the search tool: a found result is given its
\* target_ratio and written
WriteConfigCall ==
    /\ tool \in {"min_error", "min_ring1"}
    /\ result.tag = "config"
    /\ \E pitch_mm \in PitchValues, pressure_angle \in PressureAngles,
          profile_shift \in ProfileShifts :
        LET res == [key \in DOMAIN result \cup {"target_ratio"} |->
                        IF key = "target_ratio" THEN args.target_ratio ELSE result[key]]
        IN  /\ tool' = "write_config"
            /\ args' = [result |-> res, pitch_mm |-> pitch_mm,
                        pressure_angle |-> pressure_angle,
                        profile_shift |-> profile_shift]
            /\ result' = None
            /\ out_file' = write_config_yaml(res, pitch_mm, pressure_angle, profile_shift)
            /\ printed' = << Say("Configuration written", TRUE) >>

\* the integration test script run after the search tool
LoadConfigCall ==
    /\ tool \in {"min_error", "min_ring1", "write_config"}
    /\ LET done == load_config(out_file)
       IN  /\ tool' = "load_config"
           /\ args' = << >>
           /\ result' = done.result
           /\ printed' = done.printed
    /\ UNCHANGED out_file

NextExport == MinErrorCall \/ MinRing1Call \/ WriteConfigCall \/ LoadConfigCall

SpecExport == Init /\ [][NextExport]_vars

\* C14: every run of load_config on a file written by write_config_yaml
\* returns the five tooth counts, the module, the pressure angle and the
\* profile shift that write_config_yaml was given.
C14_RoundTrip ==
    [][(tool = "write_config" /\ LoadConfigCall) =>
        /\ result'.sun_teeth = args.result.sun_teeth
        /\ result'.p1_teeth = args.result.p1_teeth
        /\ result'.r1_teeth = args.result.r1_teeth
        /\ result'.p2_teeth = args.result.p2_teeth
        /\ result'.r2_teeth = args.result.r2_teeth
        /\ result'.pitch_mm = args.pitch_mm
        /\ result'.pressure_angle = args.pressure_angle
        /\ result'.profile_shift = args.profile_shift]_vars

\* a file holding profile_shift 0.0508 and pressure angle 14.5 has been read
\* back
C14_Witness ==
    /\ tool = "load_config"
    /\ out_file.tag = "yaml"
    /\ out_file.gear_parameters.profile_shift = <<"0", ".", "0", "5", "0", "8">>
    /\ out_file.gear_parameters.pressure_angle = <<"1", "4", ".", "5">>
    /\ result.profile_shift = <<127, 2500>>
    /\ result.pressure_angle = <<29, 2>>
    /\ result.sun_teeth = construct_scalar(out_file.tooth_counts.sun_teeth)
    /\ result.sun_teeth > 0

----------------------------------------------------------------------------
(* Ties of the minimum-error search *)

\* the surviving candidates whose |ratio - target| is the minimum
MinimalErrorCandidates(target_ratio, max_teeth) ==
    {c \in Survivors(max_teeth) :
        \A other \in Survivors(max_teeth) :
            RLe(AbsErrorOf(c, target_ratio), AbsErrorOf(other, target_ratio))}

\* C15: where several surviving candidates share the minimal |ratio - target|,
\* minimum-error mode returns the one that comes first in iteration order
\* (ring_teeth_1, then planet_teeth_1, then ring_teeth_2, each ascending).
C15_FirstAmongTies ==
    (tool = "min_error" /\ result.tag = "config") =>
        \A c \in MinimalErrorCandidates(args.target_ratio, args.max_teeth) :
            IterationOrderLe(TripleOf(result), c)

\* C16: for every tooth sum T that the planet count does not divide, the
\* collection loop of get_carrier_angles reaches its break (an integer-degree
\* wrapped angle that is negative) at a counter value n <= T, so the call
\* leaves the loop.
C16_CollectionBreaksWithinT ==
    (tool = "angles" /\ ~TeethDivisible) =>
        /\ \E n \in 1 .. (args.r1_teeth + args.sun_teeth) :
              BreaksAt(args.r1_teeth + args.sun_teeth, n)
        /\ result.tag # "runs on"

----------------------------------------------------------------------------
(* Tooth counts solved by the solver *)

\* the one missing cross-stage parameter of the run is param of stack s
OnlyMissing(s, param) ==
    /\ tool = "solver"
    /\ args[s][param] \in {Absent, Null}
    /\ Cardinality(CrossStageMissing(args)) = 1

OtherStack(s) == IF s = "stack_1_params" THEN "stack_2_params" ELSE "stack_1_params"

\* the real solution of (ring_1 - planet_1)*module_1 = (ring_2 - planet_2)*module_2
\* for a tooth count of stack s, the module of s being nonzero
ExactTeeth(s, param) ==
    LET q == RDiv(CarrierProduct(args[OtherStack(s)]), args[s].module.v)
    IN  IF param = "ring_teeth" THEN RAdd(RInt(args[s].planet_teeth.v), q)
        ELSE RSub(RInt(args[s].ring_teeth.v), q)

\* C17: a tooth count solved and written by the solver is an integer within
\* 1/2 of the real solution of the carrier equation; where the real solution
\* is an integer the written value equals it and the carrier residual of the
\* written configuration is zero.
C17_ToothCountRoundedToNearest ==
    \A s \in StackKeys, param \in {"ring_teeth", "planet_teeth"} :
        (OnlyMissing(s, param) /\ out_file.tag = "file") =>
            LET v == out_file[s][param].v
                exact == ExactTeeth(s, param)
            IN  /\ v \in Int
                /\ RLe(RAbs(RSub(RInt(v), exact)), <<1, 2>>)
                /\ RIsInteger(exact) =>
                      /\ RInt(v) = exact
                      /\ RIsZero(WrittenResidual)

\* planet_teeth of stack 1 solved from ring 21, module 2 and a second stage
\* of module 0.5, ring 53, planet 20: the real solution 12.75 is written as 13
C17_Witness ==
    /\ OnlyMissing("stack_1_params", "planet_teeth")
    /\ out_file.tag = "file"
    /\ ExactTeeth("stack_1_params", "planet_teeth") = <<51, 4>>
    /\ out_file.stack_1_params.planet_teeth = Val(13)
    /\ ~RIsZero(WrittenResidual)

----------------------------------------------------------------------------
(* Carrier mismatch as a warning *)

\* the value printed with a message by the run
PrintedValue(msg) == printed[CHOOSE m \in 1 .. Len(printed) : printed[m].msg = msg].value

\* |s1_carrier_radius - s2_carrier_radius| of the stacks the generator loaded
LoadedRadiusError ==
    RAbs(RSub(get_carrier_radius(args.stack_1_params.planet_teeth.v,
                                 args.stack_1_params.ring_teeth.v,
                                 args.stack_1_params.module.v),
              get_carrier_radius(args.stack_2_params.planet_teeth.v,
                                 args.stack_2_params.ring_teeth.v,
                                 args.stack_2_params.module.v)))

\* the placement formulas divide by a planet tooth count of the loaded stacks
PlanetTeethZero ==
    \/ args.stack_1_params.planet_teeth.v = 0
    \/ args.stack_2_params.planet_teeth.v = 0

\* C18: a solver run whose verification finds carrier radii more than 1e-9
\* apart prints the warning, writes the output file with the verified values
\* and returns success; a generator run on stacks whose carrier radii are more
\* than 1e-9 apart prints its warning and goes on to the placements: it
\* computes all six of them, unless a planet tooth count of 0 makes the
\* placement formula itself divide by zero.
C18_MismatchIsWarningOnly ==
    /\ (tool = "solver" /\ Printed("Difference")
            /\ AboveCarrierTolerance(PrintedValue("Difference"))) =>
          /\ Printed("WARNING: Carrier radii do not match")
          /\ result.ret = TRUE /\ result.exit_code = 0
          /\ out_file.tag = "file"
          /\ WrittenResidual = RMul(RInt(2), PrintedValue("Difference"))
          /\ Printed("Complete configuration written")
    /\ (tool = "generator" /\ args # << >> /\ AboveCarrierTolerance(LoadedRadiusError)) =>
          /\ Printed("Warning - carrier mismatch")
          /\ PrintedValue("Warning - carrier mismatch") = LoadedRadiusError
          /\ IF PlanetTeethZero THEN result = ZeroDivisionError
             ELSE /\ result.tag = "placements"
                  /\ result.m_c3_1.radius = result.s1_carrier_radius
                  /\ result.m_c3_2.radius = result.s2_carrier_radius

\* the generator has run on a file the solver wrote with carrier radii 16.5
\* and 8.25 and has placed the planets of both stages
C18_Witness ==
    /\ tool = "generator"
    /\ out_file.tag = "file"
    /\ Printed("Warning - carrier mismatch")
    /\ result.tag = "placements"
    /\ result.s1_carrier_radius = <<33, 2>>
    /\ result.s2_carrier_radius = <<33, 4>>

----------------------------------------------------------------------------
(* What the solver leaves alone *)

\* the position of a message in the output of the run
PrintedAt(msg) == CHOOSE m \in 1 .. Len(printed) : printed[m].msg = msg

\* C19: in every solver run that writes the output file at most one
\* cross-stage parameter was missing; every other key of both stacks is
\* written with its input value and no key is added besides the solved one;
\* the printed carrier difference and stage validity are those of the written
\* values and are printed before the write is reported; with nothing missing
\* the written stacks are the input stacks.
C19_OnlyMissingParameterChanges ==
    SolverWrote =>
        /\ Cardinality(CrossStageMissing(args)) <= 1
        /\ \A s \in StackKeys :
              /\ DOMAIN out_file[s] = DOMAIN args[s]
              /\ \A key \in DOMAIN args[s] :
                    IF <<s, key>> \in CrossStageMissing(args)
                    THEN out_file[s][key].key = "value"
                    ELSE out_file[s][key] = args[s][key]
        /\ CrossStageMissing(args) = {} =>
              /\ out_file.stack_1_params = args.stack_1_params
              /\ out_file.stack_2_params = args.stack_2_params
        /\ Printed("Difference") /\ Printed("Stack 1 valid")
        /\ RMul(RInt(2), PrintedValue("Difference")) = WrittenResidual
        /\ PrintedValue("Stack 1 valid") =
              check_stage_validity(3, out_file.stack_1_params.ring_teeth.v,
                                   out_file.stack_1_params.ring_teeth.v
                                       - 2 * out_file.stack_1_params.planet_teeth.v)
        /\ PrintedAt("Difference") < PrintedAt("Complete configuration written")
        /\ PrintedAt("Stack 1 valid") < PrintedAt("Complete configuration written")

\* ring_teeth of stack 2 was absent and is written as 37, the other keys of
\* both stacks as given, has_sun of stack 2 staying absent
C19_Witness ==
    /\ SolverWrote
    /\ args.stack_2_params.ring_teeth = Absent
    /\ out_file.stack_2_params.ring_teeth = Val(37)
    /\ out_file.stack_2_params.has_sun = Absent
    /\ out_file.stack_1_params = args.stack_1_params
    /\ out_file.stack_2_params.module = Val(RInt(2))
    /\ args.stack_2_params.module = Val(RInt(2))

----------------------------------------------------------------------------
(* Carrier matching of the search results *)

\* the carrier radius of a stage of the written srcp.yaml, at its one module
WrittenCarrierRadius(planet_key, ring_key) ==
    get_carrier_radius(construct_scalar(out_file.tooth_counts[planet_key]),
                       construct_scalar(out_file.tooth_counts[ring_key]),
                       construct_scalar(out_file.gear_parameters.module))

\* C20: every configuration returned by either search mode has
\* ring_teeth_1 - planet_teeth_1 = ring_teeth_2 - planet_teeth_2, and in the
\* file the search tool writes, with its single module, the carrier radii of
\* the two stages are equal.
C20_SearchResultsMatchCarriers ==
    /\ SearchReturnedConfig =>
          result.r1_teeth - result.p1_teeth = result.r2_teeth - result.p2_teeth
    /\ tool = "write_config" =>
          /\ args.result.r1_teeth - args.result.p1_teeth
                = args.result.r2_teeth - args.result.p2_teeth
          /\ WrittenCarrierRadius("p1_teeth", "r1_teeth")
                = WrittenCarrierRadius("p2_teeth", "r2_teeth")

\* a written search result whose two stages differ in both tooth counts,
\* at module 0.3
C20_Witness ==
    /\ tool = "write_config"
    /\ args.result.r1_teeth # args.result.r2_teeth
    /\ args.result.p1_teeth # args.result.p2_teeth
    /\ args.pitch_mm = <<3, 10>>
    /\ ~RIsZero(WrittenCarrierRadius("p1_teeth", "r1_teeth"))

----------------------------------------------------------------------------
(* The singular case G = 0 of the search *)

\* the candidates (r1, p1, r2) of the loops that pass the filters of lines
\* 20-35, before G is computed
FilterPassing(max_teeth) ==
    {c \in (RingLow .. max_teeth - 1) \X (P1Low .. 29) \X (RingLow .. max_teeth - 1) :
        LET sun == c[1] - 2 * c[2]
        IN  /\ c[2] < P1High(c[1])
            /\ ~SunTooSmall(sun)
            /\ ~SpacingRejected(c[1], sun)
            /\ ~(sun <= 0)
            /\ ~P2Rejected(c[3] - sun - c[2])}

GOf(c) ==
    LET sun == c[1] - 2 * c[2]
    IN  GearG(c[1], sun, c[2], c[3] - sun - c[2], c[3])

\* C21: for every candidate that passes the filters no divisor of lines 38-40
\* is zero, r1*p2 - r2*p1 = (r1 - p1)*(r2 - r1), and G = 0, as well as
\* |G| < 1e-10, holds exactly when ring_teeth_2 = ring_teeth_1; no returned
\* configuration has ring_teeth_2 = ring_teeth_1; and the candidates with
\* ring_teeth_2 # ring_teeth_1 are all evaluated: minimum-error mode returns
\* an error no larger than that of any of them, and minimum-size mode returns
\* a configuration whenever one of them passes the tolerance test.
C21_SingularIffEqualRings ==
    (tool \in {"min_error", "min_ring1"}) =>
        LET evaluated == {c \in FilterPassing(args.max_teeth) : c[3] # c[1]}
        IN  /\ \A c \in FilterPassing(args.max_teeth) :
                  LET sun == c[1] - 2 * c[2]
                      p2 == c[3] - sun - c[2]
                  IN  /\ sun # 0 /\ c[3] * c[2] # 0
                      /\ ~RIsZero(RAdd(RInt(1), RDiv(RInt(c[1]), RInt(sun))))
                      /\ c[1] * p2 - c[3] * c[2] = (c[1] - c[2]) * (c[3] - c[1])
                      /\ RIsZero(GOf(c)) <=> c[3] = c[1]
                      /\ BelowEps(GOf(c)) <=> c[3] = c[1]
            /\ result.tag = "config" => result.r2_teeth # result.r1_teeth
            /\ result = ZeroDivisionError => RIsZero(args.target_ratio)
            /\ (tool = "min_error" /\ ~RIsZero(args.target_ratio) /\ evaluated # {}) =>
                  /\ result.tag = "config"
                  /\ \A c \in evaluated :
                        RLe(result.error, ErrorOf(ActualRatio(GOf(c)), args.target_ratio))
            /\ (tool = "min_ring1" /\ ~RIsZero(args.target_ratio)) =>
                  (result = None <=>
                      \A c \in evaluated :
                          ~WithinTolerance(ErrorPercent(ActualRatio(GOf(c)),
                                                        args.target_ratio),
                                           args.max_error_percent))

\* minimum-error mode has returned a configuration whose rings differ by one
\* tooth, the candidate of the same ring_teeth_1 and planet_teeth_1 with equal
\* rings having been skipped
C21_Witness ==
    /\ tool = "min_error" /\ result.tag = "config"
    /\ result.r2_teeth = result.r1_teeth + 1
    /\ <<result.r1_teeth, result.p1_teeth, result.r1_teeth>>
          \in FilterPassing(args.max_teeth)
    /\ BelowEps(GOf(<<result.r1_teeth, result.p1_teeth, result.r1_teeth>>))

----------------------------------------------------------------------------
(* Division by zero in the solver *)

\* the one missing cross-stage parameter of config is param of stack s, and
\* solving it divides by zero: by ring_teeth - planet_teeth of s for a module,
\* by the module of s for a tooth count
DividesByZero(config, s, param) ==
    /\ CrossStageMissing(config) = {<<s, param>>}
    /\ IF param = "module"
       THEN config[s].ring_teeth.v = config[s].planet_teeth.v
       ELSE RIsZero(config[s].module.v)

\* C22: a solver run whose single missing parameter can only be solved by a
\* division by zero prints an error, returns failure with exit code 1 and
\* leaves the output file as it found it; the exception is caught inside
\* solve_and_complete_config.
C22_DivisionByZeroFails ==
    [][(tool = "none" /\ tool' = "solver"
            /\ \E s \in StackKeys, param \in {"module", "ring_teeth", "planet_teeth"} :
                  DividesByZero(args', s, param)) =>
          /\ result' = [ret |-> FALSE, exit_code |-> 1]
          /\ out_file' = out_file
          /\ \E m \in 1 .. Len(printed') :
                /\ printed'[m].msg = "ERROR: Could not solve"
                /\ m = Len(printed')
          /\ \A m \in 1 .. Len(printed') :
                printed'[m].msg # "Complete configuration written"]_vars

\* the module of stack 2 was missing where its ring and planet both have 21
\* teeth: the run failed and an older output file is still in place
C22_Witness ==
    /\ tool = "solver"
    /\ DividesByZero(args, "stack_2_params", "module")
    /\ args.stack_2_params.ring_teeth = Val(21)
    /\ args.stack_1_params.module = Val(<<1, 2>>)
    /\ out_file = StaleFile
    /\ result.exit_code = 1
    /\ Printed("ERROR: Could not solve")

====
